---- MODULE Spec2Model ----
(***************************************************************************)
(* agentmemory/postgres.py: PostgresClient and PostgresCollection, the     *)
(* per-category tables they create, the metadata columns they add on       *)
(* demand and the CRUD / nearest-neighbour operations over them.           *)
(*                                                                         *)
(* Text (category names, table names, documents) is a sequence of          *)
(* one-character strings, so that prefixing, splitting and matching are    *)
(* computed.  Python scalars and SQL cells are <<type, text>> pairs, so    *)
(* that storing a value in a TEXT column is a conversion.                  *)
(***************************************************************************)
EXTENDS Integers, Sequences, FiniteSets, TLC

\* ---------------------------------------------------------------- bounds
\* Rows stored in the whole database (guards of the inserting actions).
MaxRows == 2
\* Largest n_results a query asks for.
MaxK == 2

\* ------------------------------------------------------------ input sets
Categories == {<<"a">>, <<"a", "_", "b">>}
Keys == {"k1", "k2"}
Docs == {<<"a">>, <<"a", "b">>}

\* Python values: str, int, None.
PyStr(s) == <<"str", s>>
PyInt(s) == <<"int", s>>
PyNone == <<"none", "">>
\* The values a caller passes under each key.
KeyValues == [k \in Keys |-> IF k = "k1" THEN {PyInt("1")} ELSE {PyStr("u")}]

\* A metadata dict is a function from the keys it holds to Python values.
Metas == UNION {{m \in [K -> UNION {KeyValues[k] : k \in Keys}] :
                    \A k \in K : m[k] \in KeyValues[k]} : K \in SUBSET Keys}
EmptyMeta == CHOOSE m \in Metas : DOMAIN m = {}

\* documents / embeddings that are not given (Python None).
NoneDoc == <<"None">>
NoneEmb == -1
\* An explicitly supplied embedding (one-dimensional vectors).
GivenEmbs == {3}

\* ------------------------------------------------------------- SQL cells
SqlNull == <<"null", "">>
SqlText(s) == <<"text", s>>

\* A Python value assigned to a TEXT column (the column type of line 213).
ToText(v) == IF v[1] = "none" THEN SqlNull ELSE SqlText(v[2])
\* A TEXT cell fetched back into Python.
FromSql(cell) == IF cell[1] = "null" THEN PyNone ELSE PyStr(cell[2])

\* ------------------------------------------------------------- the state
VARIABLES
    db,     \* table name -> [exists, cols, rows]: the database catalog and heap
    last,   \* the call of the single client that just ran: name, arguments, outcome
    writers \* concurrent writers, each on its own connection: position and locals

vars == <<db, last, writers>>

_table_name(category) == <<"m", "e", "m", "o", "r", "y", "_">> \o category

TableNames == {_table_name(c) : c \in Categories}

NoTable == [exists |-> FALSE, cols |-> {}, rows |-> {}]

TotalRows(d) ==
    LET RECURSIVE Sum(_)
        Sum(S) == IF S = {} THEN 0
                  ELSE LET t == CHOOSE x \in S : TRUE
                       IN Cardinality(d[t].rows) + Sum(S \ {t})
    IN Sum(DOMAIN d)

Min(a, b) == IF a < b THEN a ELSE b

\* ---------------------------------------------------------- SchemaRegistry
\* ensure_table_exists without the IF NOT EXISTS guard, replacing the table.
ensure_table_recreate(d, category) ==
    [d EXCEPT ![_table_name(category)] =
        [exists |-> TRUE, cols |-> {}, rows |-> {}]]

\* CREATE TABLE IF NOT EXISTS memory_<category> (id, document, embedding)
ensure_table_exists(d, category) ==
    LET t == _table_name(category)
    IN IF d[t].exists THEN d
       ELSE [d EXCEPT ![t] = [exists |-> TRUE, cols |-> {}, rows |-> {}]]

\* SELECT EXISTS (... pg_attribute WHERE attrelid = table AND attname = key)
column_exists(d, category, key) == key \in d[_table_name(category)].cols

\* add_column adding the column with a default of '' instead of none.
add_column_with_default(d, category, key) ==
    LET t == _table_name(category)
    IN [d EXCEPT ![t].cols = @ \cup {key},
                 ![t].rows = {[r EXCEPT !.meta =
                                  [k \in DOMAIN r.meta \cup {key} |->
                                      IF k \in DOMAIN r.meta THEN r.meta[k]
                                      ELSE SqlText("")]] : r \in @}]

\* ALTER TABLE memory_<category> ADD COLUMN <key> TEXT: rows already stored
\* read NULL in the new column.
add_column(d, category, key) ==
    LET t == _table_name(category)
    IN [d EXCEPT ![t].cols = @ \cup {key},
                 ![t].rows = {[r EXCEPT !.meta =
                                  [k \in DOMAIN r.meta \cup {key} |->
                                      IF k \in DOMAIN r.meta THEN r.meta[k]
                                      ELSE SqlNull]] : r \in @}]

\* ensure_columns_loop making the columns exactly the keys written: columns
\* the metadata does not name are dropped.
ensure_columns_loop_dropping(d, category, keys) ==
    LET t == _table_name(category)
    IN [d EXCEPT ![t].cols = keys,
                 ![t].rows = {[r EXCEPT !.meta =
                                  [k \in keys |->
                                      IF k \in DOMAIN r.meta THEN r.meta[k]
                                      ELSE SqlNull]] : r \in @}]

RECURSIVE ensure_columns_loop(_, _, _)
ensure_columns_loop(d, category, keys) ==
    IF keys = {} THEN d
    ELSE LET key == CHOOSE k \in keys : TRUE
             d1 == IF column_exists(d, category, key) THEN d
                   ELSE add_column(d, category, key)
         IN ensure_columns_loop(d1, category, keys \ {key})

_ensure_metadata_columns_exist(d, category, metadata) ==
    ensure_columns_loop(d, category, DOMAIN metadata)

\* ------------------------------------------------------- EmbeddingProvider
\* infer_embeddings is external: a fixed function of the text.
create_embedding(document) == Len(document)

\* --------------------------------------------------------- CollectionStore
\* SELECT COUNT(*) after ensuring the table; the pair of database and count.
count(d, category) ==
    LET d1 == ensure_table_exists(d, category)
    IN [db |-> d1, n |-> Cardinality(d1[_table_name(category)].rows)]

\* INSERT INTO memory_<category> (id, document, embedding, <keys>) VALUES ...
\* id is the PRIMARY KEY and document is NOT NULL.  err = "" is success.
InsertRow(d, category, id, document, embedding, metadata) ==
    LET t == _table_name(category)
        row == [id |-> id, document |-> document, embedding |-> embedding,
                meta |-> [k \in d[t].cols |->
                             IF k \in DOMAIN metadata THEN ToText(metadata[k])
                             ELSE SqlNull]]
    IN IF document = NoneDoc THEN [db |-> d, err |-> "NotNullViolation"]
       ELSE IF \E r \in d[t].rows : r.id = id
       THEN [db |-> d, err |-> "UniqueViolation"]
       ELSE [db |-> [d EXCEPT ![t].rows = @ \cup {row}], err |-> ""]

insert_memory(d, category, document, metadata, embedding) ==
    LET d1 == ensure_table_exists(d, category)
        d2 == _ensure_metadata_columns_exist(d1, category, metadata)
        emb == IF embedding = NoneEmb THEN create_embedding(document)
               ELSE embedding
        c == count(d2, category)
        ins == InsertRow(c.db, category, c.n, document, emb, metadata)
    IN [db |-> ins.db, err |-> ins.err, id |-> c.n]

\* zip(ids, documents, metadatas[, embeddings]) stops at the shortest.
\* embeddings = <<>> stands for embeddings=None.
ZipLen(ids, documents, metadatas, embeddings) ==
    LET n == Min(Len(ids), Min(Len(documents), Len(metadatas)))
    IN IF embeddings = <<>> THEN n ELSE Min(n, Len(embeddings))

\* add_loop as one transaction: a failure takes back the rows the call
\* inserted before it.
RECURSIVE add_loop_rollback(_, _, _, _, _, _, _, _)
add_loop_rollback(d, category, ids, documents, metadatas, embeddings, i, inserted) ==
    IF i > ZipLen(ids, documents, metadatas, embeddings)
    THEN [db |-> d, err |-> "", inserted |-> inserted]
    ELSE LET r == insert_memory(d, category, documents[i], metadatas[i],
                                IF embeddings = <<>> THEN NoneEmb
                                ELSE embeddings[i])
         IN IF r.err = ""
            THEN add_loop_rollback(r.db, category, ids, documents, metadatas,
                                   embeddings, i + 1, Append(inserted, r.id))
            ELSE [db |-> [r.db EXCEPT ![_table_name(category)].rows =
                            {x \in @ : \A j \in 1..Len(inserted) :
                                          x.id # inserted[j]}],
                  err |-> r.err, inserted |-> inserted]

\* PostgresCollection.add: one insert_memory per zipped tuple, the ids
\* themselves not passed on; the first failure ends the call.
RECURSIVE add_loop(_, _, _, _, _, _, _, _)
add_loop(d, category, ids, documents, metadatas, embeddings, i, inserted) ==
    IF i > ZipLen(ids, documents, metadatas, embeddings)
    THEN [db |-> d, err |-> "", inserted |-> inserted]
    ELSE LET r == insert_memory(d, category, documents[i], metadatas[i],
                                IF embeddings = <<>> THEN NoneEmb
                                ELSE embeddings[i])
         IN IF r.err = ""
            THEN add_loop(r.db, category, ids, documents, metadatas, embeddings,
                          i + 1, Append(inserted, r.id))
            ELSE [db |-> r.db, err |-> r.err, inserted |-> inserted]

collection_add(d, category, ids, documents, metadatas, embeddings) ==
    add_loop(d, category, ids, documents, metadatas, embeddings, 1, <<>>)

\* collection_upsert replacing the rows stored under the ids it is given.
collection_upsert_replacing(d, category, ids, documents, metadatas, embeddings) ==
    collection_add([d EXCEPT ![_table_name(category)].rows =
                        {r \in @ : \A i \in 1..Len(ids) : r.id # ids[i]}],
                   category, ids, documents, metadatas, embeddings)

\* PostgresCollection.upsert
collection_upsert(d, category, ids, documents, metadatas, embeddings) ==
    collection_add(d, category, ids, documents, metadatas, embeddings)

\* Optional arguments: None, or a value that was passed.
None == [given |-> FALSE]
Some(v) == [given |-> TRUE, v |-> v]

\* Every order in which the engine may hand back the rows of S.
RECURSIVE Orders(_)
Orders(S) ==
    IF S = {} THEN {<<>>}
    ELSE UNION {{<<r>> \o rest : rest \in Orders(S \ {r})} : r \in S}

\* rows LIMIT limit OFFSET offset
LimitOffset(rows, limit, offset) ==
    SubSeq(rows, offset + 1, Min(Len(rows), offset + limit))

DefaultLimit == 100
PeekLimit == 10

\* The dictionaries get builds from the fetched rows: every column other
\* than id, document, embedding is metadata.
GetResult(rows) ==
    [ids |-> [i \in 1..Len(rows) |-> rows[i].id],
     documents |-> [i \in 1..Len(rows) |-> rows[i].document],
     metadatas |-> [i \in 1..Len(rows) |->
                      [k \in DOMAIN rows[i].meta |-> FromSql(rows[i].meta[k])]]]

EmptyResult == [ids |-> <<>>, documents |-> <<>>, metadatas |-> <<>>]

\* collection_get leaving the WHERE id = ANY(ids) out of the ids branch.
collection_get_without_where(d, category, ids, limit, offset) ==
    LET t == _table_name(category)
        scan == ~ids.given \/ ids.v = <<>>
        lim == IF limit.given THEN limit.v
               ELSE IF scan THEN DefaultLimit ELSE Len(ids.v)
        off == IF offset.given THEN offset.v ELSE 0
    IN IF ~d[t].exists
       THEN {[err |-> "UndefinedTable", result |-> EmptyResult]}
       ELSE {[err |-> "", result |-> GetResult(LimitOffset(o, lim, off))] :
                o \in Orders(d[t].rows)}

\* PostgresCollection.get: the outcomes [err, result] the call can have.
\* The table is not ensured; ids of None or [] take the scan branch.
collection_get(d, category, ids, limit, offset) ==
    LET t == _table_name(category)
        scan == ~ids.given \/ ids.v = <<>>
        lim == IF limit.given THEN limit.v
               ELSE IF scan THEN DefaultLimit ELSE Len(ids.v)
        off == IF offset.given THEN offset.v ELSE 0
        matching == IF scan THEN d[t].rows
                    ELSE {r \in d[t].rows : \E i \in 1..Len(ids.v) : r.id = ids.v[i]}
    IN IF ~d[t].exists
       THEN {[err |-> "UndefinedTable", result |-> EmptyResult]}
       ELSE {[err |-> "", result |-> GetResult(LimitOffset(o, lim, off))] :
                o \in Orders(matching)}

\* PostgresCollection.peek
collection_peek(d, category, limit) ==
    collection_get(d, category, None, Some(limit), None)

\* str(i).isdigit() for an int i (line 129): no sign.
IsDigitId(i) == i >= 0

\* text LIKE pattern: % matches any run of characters, _ any one character.
RECURSIVE Like(_, _)
Like(text, pattern) ==
    IF pattern = <<>> THEN text = <<>>
    ELSE IF Head(pattern) = "%"
    THEN Like(text, Tail(pattern)) \/ (text # <<>> /\ Like(Tail(text), pattern))
    ELSE /\ text # <<>>
         /\ Head(pattern) = "_" \/ Head(pattern) = Head(text)
         /\ Like(Tail(text), Tail(pattern))

\* <key> = %s against a TEXT column, the parameter rendered by its Python type.
CellEquals(cell, value) ==
    value[1] = "str" /\ cell[1] = "text" /\ cell[2] = value[2]

\* collection_delete running the bare DELETE when no condition was built.
collection_delete_unconditional(d, category, ids, where, where_document) ==
    LET t == _table_name(category)
        d1 == ensure_table_exists(d, category)
        byIds == ids.given
        byDoc == where_document.given /\ "$contains" \in DOMAIN where_document.v
        byMeta == where.given /\ DOMAIN where.v # {}
        pattern == <<"%">> \o where_document.v["$contains"] \o <<"%">>
        hit(r) == /\ byIds => \E i \in 1..Len(ids.v) : r.id = ids.v[i]
                  /\ byDoc => Like(r.document, pattern)
                  /\ byMeta => \A k \in DOMAIN where.v :
                                  CellEquals(r.meta[k], where.v[k])
    IN IF byIds /\ \E i \in 1..Len(ids.v) : ~IsDigitId(ids.v[i])
       THEN [db |-> d1, err |-> "InvalidIds"]
       ELSE IF byMeta /\ ~(DOMAIN where.v \subseteq d1[t].cols)
       THEN [db |-> d1, err |-> "UndefinedColumn"]
       ELSE IF byMeta /\ \E k \in DOMAIN where.v : where.v[k][1] = "int"
       THEN [db |-> d1, err |-> "UndefinedFunction"]
       ELSE [db |-> [d1 EXCEPT ![t].rows = {r \in @ : ~hit(r)}], err |-> ""]

\* PostgresCollection.delete.  where_document is a dict of operators
\* ("$contains" -> text), where a dict of key -> value.
collection_delete(d, category, ids, where, where_document) ==
    LET t == _table_name(category)
        d1 == ensure_table_exists(d, category)
        byIds == ids.given
        byDoc == where_document.given /\ "$contains" \in DOMAIN where_document.v
        byMeta == where.given /\ DOMAIN where.v # {}
        pattern == <<"%">> \o where_document.v["$contains"] \o <<"%">>
        hit(r) == /\ byIds => \E i \in 1..Len(ids.v) : r.id = ids.v[i]
                  /\ byDoc => Like(r.document, pattern)
                  /\ byMeta => \A k \in DOMAIN where.v :
                                  CellEquals(r.meta[k], where.v[k])
    IN IF byIds /\ \E i \in 1..Len(ids.v) : ~IsDigitId(ids.v[i])
       THEN [db |-> d1, err |-> "InvalidIds"]
       ELSE IF ~(byIds \/ byDoc \/ byMeta)
       THEN [db |-> d1, err |-> "NoValidConditions"]
       ELSE IF byMeta /\ ~(DOMAIN where.v \subseteq d1[t].cols)
       THEN [db |-> d1, err |-> "UndefinedColumn"]
       ELSE IF byMeta /\ \E k \in DOMAIN where.v : where.v[k][1] = "int"
       THEN [db |-> d1, err |-> "UndefinedFunction"]
       ELSE [db |-> [d1 EXCEPT ![t].rows = {r \in @ : ~hit(r)}], err |-> ""]

\* client_update setting the document and leaving the stored embedding when
\* none is passed.
client_update_stale_embedding(d, category, id_, document, metadata, embedding) ==
    LET t == _table_name(category)
        d1 == ensure_table_exists(d, category)
        hasDoc == document # NoneDoc /\ document # <<>>
        hasMeta == DOMAIN metadata # {}
        d2 == IF hasMeta THEN _ensure_metadata_columns_exist(d1, category, metadata)
              ELSE d1
        setMeta(r) == [k \in DOMAIN r.meta |->
                          IF k \in DOMAIN metadata THEN ToText(metadata[k])
                          ELSE r.meta[k]]
        set(r) == IF r.id # id_ THEN r
                  ELSE IF hasDoc
                  THEN [r EXCEPT !.document = document,
                                 !.embedding = IF embedding = NoneEmb THEN @
                                               ELSE embedding,
                                 !.meta = IF hasMeta THEN setMeta(r) ELSE @]
                  ELSE [r EXCEPT !.meta = setMeta(r)]
    IN IF hasDoc \/ hasMeta
       THEN [d2 EXCEPT ![t].rows = {set(r) : r \in @}]
       ELSE d1

\* PostgresClient.update: one UPDATE ... WHERE id = id_.  A document of None
\* or "" is falsy, and so is a metadata of {}.
client_update(d, category, id_, document, metadata, embedding) ==
    LET t == _table_name(category)
        d1 == ensure_table_exists(d, category)
        hasDoc == document # NoneDoc /\ document # <<>>
        hasMeta == DOMAIN metadata # {}
        d2 == IF hasMeta THEN _ensure_metadata_columns_exist(d1, category, metadata)
              ELSE d1
        emb == IF embedding = NoneEmb THEN create_embedding(document)
               ELSE embedding
        setMeta(r) == [k \in DOMAIN r.meta |->
                          IF k \in DOMAIN metadata THEN ToText(metadata[k])
                          ELSE r.meta[k]]
        set(r) == IF r.id # id_ THEN r
                  ELSE IF hasDoc
                  THEN [r EXCEPT !.document = document, !.embedding = emb,
                                 !.meta = IF hasMeta THEN setMeta(r) ELSE @]
                  ELSE [r EXCEPT !.meta = setMeta(r)]
    IN IF hasDoc \/ hasMeta
       THEN [d2 EXCEPT ![t].rows = {set(r) : r \in @}]
       ELSE d1

\* PostgresCollection.update: zip over the arguments, one client update per
\* tuple.  zip raises on an argument that is None (documents, metadatas).
RECURSIVE update_loop(_, _, _, _, _, _, _)
update_loop(d, category, ids, documents, metadatas, embeddings, i) ==
    IF i > ZipLen(ids, documents, metadatas,
                  IF embeddings.given THEN embeddings.v ELSE <<>>) THEN d
    ELSE update_loop(client_update(d, category, ids[i], documents[i],
                                   metadatas[i],
                                   IF embeddings.given THEN embeddings.v[i]
                                   ELSE NoneEmb),
                     category, ids, documents, metadatas, embeddings, i + 1)

collection_update(d, category, ids, documents, metadatas, embeddings) ==
    IF ~documents.given \/ ~metadatas.given
    THEN [db |-> d, err |-> "TypeError"]
    ELSE [db |-> update_loop(d, category, ids, documents.v, metadatas.v,
                             embeddings, 1),
          err |-> ""]

\* embedding <-> query_emb
Distance(a, b) == IF a < b THEN b - a ELSE a - b

\* NearestRows without the ORDER BY: any n rows.
NearestRows_unordered(rows, q, n) ==
    {SubSeq(o, 1, Min(Len(o), n)) : o \in Orders(rows)}

\* ORDER BY embedding <-> q LIMIT n: the orders of the rows that are sorted
\* by distance (ties in any order), cut to n.
NearestRows(rows, q, n) ==
    {SubSeq(o, 1, Min(Len(o), n)) :
        o \in {p \in Orders(rows) :
                 \A i \in 1..(Len(p) - 1) :
                    Distance(p[i].embedding, q) <= Distance(p[i + 1].embedding, q)}}

QueryBatch(rows, q) ==
    [ids |-> [i \in 1..Len(rows) |-> rows[i].id],
     documents |-> [i \in 1..Len(rows) |-> rows[i].document],
     metadatas |-> [i \in 1..Len(rows) |->
                      [k \in DOMAIN rows[i].meta |-> FromSql(rows[i].meta[k])]],
     embeddings |-> [i \in 1..Len(rows) |-> rows[i].embedding],
     distances |-> [i \in 1..Len(rows) |-> Distance(rows[i].embedding, q)]]

Extend(res, b) ==
    [ids |-> res.ids \o b.ids, documents |-> res.documents \o b.documents,
     metadatas |-> res.metadatas \o b.metadatas,
     embeddings |-> res.embeddings \o b.embeddings,
     distances |-> res.distances \o b.distances]

NoResults == [ids |-> <<>>, documents |-> <<>>, metadatas |-> <<>>,
              embeddings |-> <<>>, distances |-> <<>>]

\* PostgresClient.query: the results the call can return, one batch per text
\* appended in input order.
RECURSIVE query_loop(_, _, _, _, _)
query_loop(rows, query_texts, n_results, i, res) ==
    IF i > Len(query_texts) THEN {res}
    ELSE LET q == create_embedding(query_texts[i])
         IN UNION {query_loop(rows, query_texts, n_results, i + 1,
                              Extend(res, QueryBatch(b, q))) :
                      b \in NearestRows(rows, q, n_results)}

client_query(d, category, query_texts, n_results) ==
    LET d1 == ensure_table_exists(d, category)
    IN [db |-> d1,
        results |-> query_loop(d1[_table_name(category)].rows, query_texts,
                               n_results, 1, NoResults)]

\* ------------------------------------------------------ CollectionRegistry
StartsWith(s, prefix) ==
    Len(s) >= Len(prefix) /\ SubSeq(s, 1, Len(prefix)) = prefix

\* str.split(sep): the pieces of s between the separators.
RECURSIVE Split(_, _)
Split(s, sep) ==
    IF \A i \in 1..Len(s) : s[i] # sep THEN <<s>>
    ELSE LET i == CHOOSE j \in 1..Len(s) :
                      s[j] = sep /\ \A h \in 1..(j - 1) : s[h] # sep
         IN <<SubSeq(s, 1, i - 1)>> \o Split(SubSeq(s, i + 1, Len(s)), sep)

\* PostgresClient.list_collections: the names of the categories returned.
list_collections(d) ==
    {Split(t, "_")[2] : t \in {x \in DOMAIN d : d[x].exists
                                   /\ StartsWith(x, <<"m", "e", "m", "o", "r", "y", "_">>)}}

\* delete_collection emptying the table (DELETE FROM) instead of dropping it.
delete_collection_rows_only(d, category) ==
    [d EXCEPT ![_table_name(category)].rows = {}]

\* DROP TABLE IF EXISTS memory_<category>
delete_collection(d, category) ==
    [d EXCEPT ![_table_name(category)] = NoTable]

\* ----------------------------------------------------------------- actions
\* The client is synchronous: a call runs to completion, last holds what it
\* was and how it ended until the caller takes it (Return), and only then is
\* the next call made.
Idle == [op |-> "idle", err |-> ""]

Writers == {"w1", "w2"}

NotStarted == [pc |-> "start", category |-> <<>>, document |-> <<>>,
               metadata |-> EmptyMeta, todo |-> {}, key |-> "", id |-> -1,
               err |-> ""]

Init ==
    /\ db = [t \in TableNames |-> NoTable]
    /\ last = Idle
    /\ writers = [w \in Writers |-> NotStarted]

\* A call passes one or two parallel tuples; ids are consecutive from ids[1].
BatchLens == {1, 2}
IdLists == {[j \in 1..n |-> j] : n \in BatchLens}
PairMetas == {<<EmptyMeta, EmptyMeta>>,
              <<[k \in {"k1"} |-> PyInt("1")], [k \in {"k2"} |-> PyStr("u")]>>}
AddInputs ==
    {<<ids, documents, metadatas, embeddings>> \in
        IdLists
        \X (UNION {[1..n -> Docs \cup {NoneDoc}] : n \in BatchLens})
        \X ({<<m>> : m \in Metas} \cup PairMetas)
        \X {<<>>} :
        /\ Len(ids) = Len(documents)
        /\ Len(ids) = Len(metadatas)}

GetIds == {None, Some(<<>>)} \cup {Some(<<i>>) : i \in 0..MaxRows}
              \cup {Some(<<0, 1>>)}

\* One tuple per update.  Calls that leave documents or metadatas out are
\* drawn once each; the others pass a document (None, "", text) and a dict.
UpdateInputs ==
    {<<ids, documents, metadatas, embeddings>> \in
        {<<i>> : i \in 0..1}
        \X ({None} \cup {Some(<<x>>) : x \in {NoneDoc, <<>>, <<"a", "b">>}})
        \X ({None} \cup {Some(<<m>>) : m \in {x \in Metas : Cardinality(DOMAIN x) <= 1}})
        \X {None} :
        /\ ~documents.given => metadatas = Some(<<[k \in {"k1"} |-> PyInt("1")]>>)
        /\ ~metadatas.given => documents = Some(<<<<"a", "b">>>>)}

WhereInputs == {None, Some([k \in {"k1"} |-> PyStr("1")]),
                Some([k \in {"k1"} |-> PyInt("1")])}

DeleteInputs ==
    {<<ids, where, where_document>> \in
        ({None} \cup {Some(<<i>>) : i \in -1..1})
        \X WhereInputs
        \X {None, Some(<<>>), Some([o \in {"$contains"} |-> <<"b">>]),
            Some([o \in {"$contains"} |-> <<"_">>])} :
        where_document = Some(<<>>) => (~ids.given /\ ~where.given)}

\* Category "a" is called with every input; the other category with the
\* inputs that carry no metadata, so that its table keeps the base columns.
AddInputsOf(c) ==
    {x \in AddInputs :
        c = <<"a">> \/ \A i \in 1..Len(x[3]) : x[3][i] = EmptyMeta}

UpdateInputsOf(c) ==
    {x \in UpdateInputs :
        c = <<"a">> \/ ~x[2].given \/ ~x[3].given \/ x[3].v[1] = EmptyMeta}

QueryInputs == {<<<<"a">>>>, <<<<"a", "b">>>>, <<<<"a">>, <<"a", "b">>>>}

Add(category, ids, documents, metadatas, embeddings) ==
    LET r == collection_add(db, category, ids, documents, metadatas, embeddings)
    IN /\ last = Idle
       /\ UNCHANGED writers
       /\ TotalRows(db) + Len(ids) <= MaxRows
       /\ db' = r.db
       /\ last' = [op |-> "add", category |-> category, err |-> r.err,
                   ids |-> ids, documents |-> documents,
                   metadatas |-> metadatas, embeddings |-> embeddings,
                   inserted |-> r.inserted]

Upsert(category, ids, documents, metadatas, embeddings) ==
    LET r == collection_upsert(db, category, ids, documents, metadatas, embeddings)
    IN /\ last = Idle
       /\ UNCHANGED writers
       /\ TotalRows(db) + Len(ids) <= MaxRows
       /\ db' = r.db
       /\ last' = [op |-> "upsert", category |-> category, err |-> r.err,
                   ids |-> ids, documents |-> documents,
                   metadatas |-> metadatas, embeddings |-> embeddings,
                   inserted |-> r.inserted]

Get(category, ids) ==
    /\ last = Idle
    /\ UNCHANGED writers
    /\ \E r \in collection_get(db, category, ids, None, None) :
        /\ db' = db
        /\ last' = [op |-> "get", category |-> category, err |-> r.err,
                    ids |-> ids, result |-> r.result]

Peek(category, limit) ==
    /\ last = Idle
    /\ UNCHANGED writers
    /\ \E r \in collection_peek(db, category, limit) :
        /\ db' = db
        /\ last' = [op |-> "peek", category |-> category, err |-> r.err,
                    limit |-> limit, result |-> r.result]

Count(category) ==
    LET r == count(db, category)
    IN /\ last = Idle
       /\ UNCHANGED writers
       /\ db' = r.db
       /\ last' = [op |-> "count", category |-> category, err |-> "",
                   result |-> r.n]

Query(category, query_texts, n_results) ==
    LET r == client_query(db, category, query_texts, n_results)
    IN /\ last = Idle
       /\ UNCHANGED writers
       /\ db' = r.db
       /\ \E res \in r.results :
            last' = [op |-> "query", category |-> category, err |-> "",
                     query_texts |-> query_texts, n_results |-> n_results,
                     result |-> res]

Update(category, ids, documents, metadatas, embeddings) ==
    LET r == collection_update(db, category, ids, documents, metadatas, embeddings)
    IN /\ last = Idle
       /\ UNCHANGED writers
       /\ db' = r.db
       /\ last' = [op |-> "update", category |-> category, err |-> r.err,
                   ids |-> ids, documents |-> documents,
                   metadatas |-> metadatas, embeddings |-> embeddings,
                   added |-> r.db[_table_name(category)].cols
                                \ db[_table_name(category)].cols]

Delete(category, ids, where, where_document) ==
    LET r == collection_delete(db, category, ids, where, where_document)
    IN /\ last = Idle
       /\ UNCHANGED writers
       /\ db' = r.db
       /\ last' = [op |-> "delete", category |-> category, err |-> r.err,
                   ids |-> ids, where |-> where,
                   where_document |-> where_document]

EnsureTable(category) ==
    /\ last = Idle
    /\ UNCHANGED writers
    /\ db' = ensure_table_exists(db, category)
    /\ last' = [op |-> "ensure_table_exists", category |-> category, err |-> ""]

ListCollections ==
    /\ last = Idle
    /\ UNCHANGED writers
    /\ db' = db
    /\ last' = [op |-> "list_collections", err |-> "",
                result |-> list_collections(db)]

DeleteCollection(category) ==
    /\ last = Idle
    /\ UNCHANGED writers
    /\ db' = delete_collection(db, category)
    /\ last' = [op |-> "delete_collection", category |-> category, err |-> "",
                dropped |-> db[_table_name(category)]]

Return ==
    /\ last # Idle
    /\ last' = Idle
    /\ UNCHANGED <<db, writers>>

\* ------------------------------------------------------ concurrent writers
\* Each writer runs PostgresCollection.add with one tuple on its own
\* connection; every statement reads what is committed when it runs, and
\* each step below is one statement with the commit that follows it.
WriterInputs == Categories \X Docs \X {m \in Metas : Cardinality(DOMAIN m) <= 1}

\* add -> insert_memory: ensure_table_exists
WEnsureTable(w, category, document, metadata) ==
    /\ writers[w].pc = "start"
    /\ db' = ensure_table_exists(db, category)
    /\ writers' = [writers EXCEPT ![w] =
                      [@ EXCEPT !.pc = "check_column", !.category = category,
                                !.document = document, !.metadata = metadata,
                                !.todo = DOMAIN metadata]]
    /\ UNCHANGED last

\* _ensure_metadata_columns_exist: SELECT EXISTS for the next key
WCheckColumn(w) ==
    LET s == writers[w]
    IN /\ s.pc = "check_column"
       /\ s.todo # {}
       /\ \E key \in s.todo :
            writers' = [writers EXCEPT ![w] =
                [@ EXCEPT !.todo = @ \ {key}, !.key = key,
                          !.pc = IF column_exists(db, s.category, key)
                                 THEN "check_column" ELSE "alter"]]
       /\ UNCHANGED <<db, last>>

\* _ensure_metadata_columns_exist: ALTER TABLE ADD COLUMN, commit.  The
\* engine rejects a column that exists by now.
WAddColumn(w) ==
    LET s == writers[w]
    IN /\ s.pc = "alter"
       /\ IF column_exists(db, s.category, s.key)
          THEN /\ writers' = [writers EXCEPT ![w] =
                                [@ EXCEPT !.pc = "failed", !.err = "DuplicateColumn"]]
               /\ UNCHANGED db
          ELSE /\ db' = add_column(db, s.category, s.key)
               /\ writers' = [writers EXCEPT ![w] = [@ EXCEPT !.pc = "check_column"]]
       /\ UNCHANGED last

\* insert_memory: create_embedding, then id = count()
WCount(w) ==
    LET s == writers[w]
        c == count(db, s.category)
    IN /\ s.pc = "check_column"
       /\ s.todo = {}
       /\ db' = c.db
       /\ writers' = [writers EXCEPT ![w] = [@ EXCEPT !.pc = "insert", !.id = c.n]]
       /\ UNCHANGED last

\* insert_memory: INSERT, commit
WInsert(w) ==
    LET s == writers[w]
        r == InsertRow(db, s.category, s.id, s.document,
                       create_embedding(s.document), s.metadata)
    IN /\ s.pc = "insert"
       /\ db' = r.db
       /\ writers' = [writers EXCEPT ![w] =
                        [@ EXCEPT !.pc = IF r.err = "" THEN "done" ELSE "failed",
                                  !.err = r.err]]
       /\ UNCHANGED last

NextWriters ==
    \/ \E w \in Writers, a \in WriterInputs : WEnsureTable(w, a[1], a[2], a[3])
    \/ \E w \in Writers : WCheckColumn(w)
    \/ \E w \in Writers : WAddColumn(w)
    \/ \E w \in Writers : WCount(w)
    \/ \E w \in Writers : WInsert(w)

SpecWriters == Init /\ [][NextWriters]_vars

Next ==
    \/ \E c \in Categories : \E a \in AddInputsOf(c) : Add(c, a[1], a[2], a[3], a[4])
    \/ \E c \in Categories : \E a \in {x \in AddInputsOf(c) : Len(x[1]) = 1} :
          Upsert(c, a[1], a[2], a[3], a[4])
    \/ \E c \in Categories, ids \in GetIds : Get(c, ids)
    \/ \E c \in Categories, limit \in {1, PeekLimit} : Peek(c, limit)
    \/ \E c \in Categories : Count(c)
    \/ \E c \in Categories, q \in QueryInputs, k \in 0..MaxK : Query(c, q, k)
    \/ \E c \in Categories : \E a \in UpdateInputsOf(c) :
          Update(c, a[1], a[2], a[3], a[4])
    \/ \E c \in Categories, a \in DeleteInputs : Delete(c, a[1], a[2], a[3])
    \/ \E c \in Categories : EnsureTable(c)
    \/ ListCollections
    \/ \E c \in Categories : DeleteCollection(c)
    \/ Return

Spec == Init /\ [][Next]_vars

\* ---------------------------------------------- callers passing embeddings
\* One client whose add and update calls may carry explicit embeddings.
EmbAddInputs ==
    {<<a[1], a[2], a[3], e>> :
        a \in {x \in AddInputs : Len(x[1]) = 1 /\ x[3] = <<EmptyMeta>>},
        e \in {<<>>} \cup {<<g>> : g \in GivenEmbs}}

EmbUpdateInputs ==
    {<<i>> : i \in 0..1}
    \X {None, Some(<<NoneDoc>>), Some(<<<<"a", "b">>>>)}
    \X {None, Some(<<EmptyMeta>>), Some(<<[k \in {"k2"} |-> PyStr("u")]>>)}
    \X ({None} \cup {Some(<<g>>) : g \in GivenEmbs})

NextEmbeddings ==
    \/ \E c \in {<<"a">>}, a \in EmbAddInputs : Add(c, a[1], a[2], a[3], a[4])
    \/ \E c \in {<<"a">>}, a \in EmbUpdateInputs :
          Update(c, a[1], a[2], a[3], a[4])
    \/ Return

SpecEmbeddings == Init /\ [][NextEmbeddings]_vars

\* ------------------------------------------------------------------ claims
RowsOf(d, category) == d[_table_name(category)].rows
ColsOf(d, category) == d[_table_name(category)].cols

\* C1: after a successful add(ids=[i], documents=[d], metadatas=[m]),
\* get(ids=[i]) returns exactly one row: id i, document d, metadata m.
C1_RoundTrip ==
    (last.op = "add" /\ last.err = "" /\ Len(last.ids) = 1) =>
        \A r \in collection_get(db, last.category, Some(last.ids), None, None) :
            /\ r.err = ""
            /\ r.result.ids = last.ids
            /\ r.result.documents = last.documents
            /\ r.result.metadatas = last.metadatas

\* What get hands back for the row stored under id, in every row order.
MetadataOf(d, category, id) ==
    {r.result.metadatas[1] :
        r \in collection_get(d, category, Some(<<id>>), None, None)}

\* C2 as stated: a successful add of one record with metadata m makes every
\* key of m a column; get of the new record returns each key K of m that was
\* not a column before with the written value and null for the columns m
\* does not supply, and get of every record stored before returns null for K.
SchemaGrowth(written(_)) ==
    (last.op = "idle" /\ last'.op = "add" /\ last'.err = ""
        /\ Len(last'.ids) = 1) =>
        LET c == last'.category
            m == last'.metadatas[1]
            new == DOMAIN m \ ColsOf(db, c)
        IN /\ ColsOf(db', c) = ColsOf(db, c) \cup DOMAIN m
           /\ \A got \in MetadataOf(db', c, last'.inserted[1]) :
                /\ DOMAIN got = ColsOf(db', c)
                /\ \A K \in new : got[K] = written(m[K])
                /\ \A K \in DOMAIN got \ DOMAIN m : got[K] = PyNone
           /\ \A r \in RowsOf(db, c) : \A got \in MetadataOf(db', c, r.id) :
                \A K \in new : got[K] = PyNone

AsWritten(v) == v
AsText(v) == FromSql(ToText(v))

C3_MetadataOnlyUpdate ==
    [][(last.op = "idle" /\ last'.op = "update"
          /\ ~last'.documents.given /\ ~last'.embeddings.given
          /\ last'.metadatas.given /\ Len(last'.ids) = 1
          /\ \E r \in RowsOf(db, last'.category) : r.id = last'.ids[1]) =>
        LET c == last'.category
            x == last'.ids[1]
            m2 == last'.metadatas.v[1]
        IN /\ last'.err = ""
           /\ \A t \in TableNames \ {_table_name(c)} : db'[t] = db[t]
           /\ \A r \in RowsOf(db, c) : \E r2 \in RowsOf(db', c) :
                /\ r2.id = r.id
                /\ r2.document = r.document
                /\ r2.embedding = r.embedding
                /\ r.id = x => \A k \in DOMAIN m2 : r2.meta[k] = ToText(m2[k])
                /\ r.id # x => \A k \in DOMAIN r.meta : r2.meta[k] = r.meta[k]]_vars

NoPredicates(call) ==
    ~call.ids.given /\ ~call.where.given /\ ~call.where_document.given

\* C4: delete with no ids, no where and no where_document fails and leaves
\* the rows of every category as they were.
C4_DeleteNeedsPredicate ==
    [][(last.op = "idle" /\ last'.op = "delete" /\ NoPredicates(last')) =>
           /\ last'.err = "NoValidConditions"
           /\ \A t \in TableNames : db'[t].rows = db[t].rows]_vars

\* C4 witness: the refused delete ran against a category that holds rows.
C4_Witness ==
    /\ last.op = "delete" /\ NoPredicates(last) /\ last.err # ""
    /\ RowsOf(db, last.category) # {}

\* C5: after a successful delete(ids=[x]), get(ids=[x]) is empty.
C5_DeleteThenGet ==
    (last.op = "delete" /\ last.err = "" /\ last.ids.given
        /\ Len(last.ids.v) = 1 /\ ~last.where.given
        /\ ~last.where_document.given) =>
        \A r \in collection_get(db, last.category, last.ids, None, None) :
            r.err = "" /\ r.result = EmptyResult

\* C5 witness: delete(ids=[0]) succeeded on a category whose row 1 remains
\* (ids are counts, so a row 0 was stored before row 1).
C5_Witness ==
    /\ last.op = "delete" /\ last.err = "" /\ last.ids = Some(<<0>>)
    /\ ~last.where.given /\ ~last.where_document.given
    /\ \E r \in RowsOf(db, last.category) : r.id = 1

Finished(w) == writers[w].pc \in {"done", "failed"}

\* C6: two writers that each add one record to the same category both
\* succeed, and the category then holds both records under distinct ids.
C6_NoLostRows ==
    \A w1, w2 \in Writers :
        (w1 # w2 /\ Finished(w1) /\ Finished(w2)
            /\ writers[w1].category = writers[w2].category) =>
            /\ writers[w1].pc = "done" /\ writers[w2].pc = "done"
            /\ writers[w1].id # writers[w2].id
            /\ \A w \in {w1, w2} : \E r \in RowsOf(db, writers[w].category) :
                  r.id = writers[w].id /\ r.document = writers[w].document

\* C7: a writer whose column-add finds the column added meanwhile by the
\* other writer does not fail.
C7_ColumnRaceAbsorbed ==
    \A w \in Writers : writers[w].err # "DuplicateColumn"

\* C8: with no embedding ever supplied, every stored row's embedding is
\* embed(document) of its current document.
C8_EmbeddingCoupled ==
    \A t \in TableNames : \A r \in db[t].rows :
        r.embedding = create_embedding(r.document)

\* C8 witness: an update without an embedding wrote the document of a
\* stored row, whose embedding is that of the new document.
C8_Witness ==
    /\ last.op = "update" /\ last.err = "" /\ last.documents.given
    /\ last.documents.v[1] = <<"a", "b">>
    /\ \E r \in RowsOf(db, last.category) :
          r.id = last.ids[1] /\ r.document = <<"a", "b">> /\ r.embedding = 2

\* C9: query returns, for each text in input order, min(k, rows) rows: the
\* closest to the text's embedding, in non-decreasing distance.
C9_Query ==
    last.op = "query" =>
        LET rows == RowsOf(db, last.category)
            k == last.n_results
            m == Min(k, Cardinality(rows))
            res == last.result
        IN /\ Len(res.ids) = m * Len(last.query_texts)
           /\ Len(res.distances) = Len(res.ids)
           /\ \A j \in 1..Len(last.query_texts) :
                LET q == create_embedding(last.query_texts[j])
                    seg == ((j - 1) * m + 1)..(j * m)
                IN /\ \A i \in seg : \E r \in rows :
                        /\ r.id = res.ids[i] /\ r.document = res.documents[i]
                        /\ r.embedding = res.embeddings[i]
                        /\ res.distances[i] = Distance(r.embedding, q)
                   /\ \A i1, i2 \in seg : i1 # i2 => res.ids[i1] # res.ids[i2]
                   /\ \A i1, i2 \in seg :
                        i1 < i2 => res.distances[i1] <= res.distances[i2]
                   /\ \A r \in rows :
                        (\A i \in seg : res.ids[i] # r.id) =>
                            \A i \in seg : res.distances[i] <= Distance(r.embedding, q)

\* C9 witness: two texts, k = 1, two rows at different distances: the two
\* batches name different rows, which a merged top-1 could not.
C9_Witness ==
    /\ last.op = "query" /\ last.n_results = 1 /\ Len(last.query_texts) = 2
    /\ Cardinality(RowsOf(db, last.category)) = 2
    /\ Len(last.result.ids) = 2
    /\ last.result.ids[1] # last.result.ids[2]

\* C10: list_collections returns exactly the categories that have a table.
C10_ListCollections ==
    last.op = "list_collections" =>
        last.result = {c \in Categories : db[_table_name(c)].exists}

UpsertArgs ==
    AddInputs \cup {<<a[1], a[2], a[3], [i \in 1..Len(a[1]) |-> e]>> :
                        a \in AddInputs, e \in GivenEmbs}

\* r is stored in d as it is, but for columns added since.
Kept(r, d, category) ==
    \E r2 \in RowsOf(d, category) :
        /\ r2.id = r.id /\ r2.document = r.document
        /\ r2.embedding = r.embedding
        /\ \A k \in DOMAIN r.meta : r2.meta[k] = r.meta[k]

\* C13: an upsert leaves the database and ends (success or the same failure)
\* as add with the same arguments would, from the same state and for every
\* argument tuple; every row stored before is still stored unchanged.
C13_UpsertIsAdd ==
    [][(last.op = "idle" /\ last'.op = "upsert") =>
        LET c == last'.category
            ad == collection_add(db, c, last'.ids, last'.documents,
                                 last'.metadatas, last'.embeddings)
        IN /\ db' = ad.db
           /\ last'.err = ad.err
           /\ \A r \in RowsOf(db, c) : Kept(r, db', c)
           /\ \A a \in UpsertArgs :
                LET u == collection_upsert(db, c, a[1], a[2], a[3], a[4])
                IN /\ u = collection_add(db, c, a[1], a[2], a[3], a[4])
                   /\ \A r \in RowsOf(db, c) : Kept(r, u.db, c)]_vars

\* C13 witness: an upsert under the id of a stored row collided like an add
\* and left that row stored.
C13_Witness ==
    /\ last.op = "upsert" /\ last.err = "UniqueViolation"
    /\ \E r \in RowsOf(db, last.category) : r.id = last.ids[1]

\* C14: an update of a stored id that passes a document (not None), an
\* embedding or a metadata with keys succeeds and stores each of them on the
\* row; so an update passing only an embedding stores that embedding.
C14_UpdateWritesSupplied ==
    [][(last.op = "idle" /\ last'.op = "update" /\ Len(last'.ids) = 1
          /\ \E r \in RowsOf(db, last'.category) : r.id = last'.ids[1]) =>
        LET c == last'.category
            x == last'.ids[1]
            doc == last'.documents.given /\ last'.documents.v[1] # NoneDoc
            emb == last'.embeddings.given
            meta == last'.metadatas.given /\ DOMAIN last'.metadatas.v[1] # {}
        IN (doc \/ emb \/ meta) =>
             /\ last'.err = ""
             /\ \E r2 \in RowsOf(db', c) :
                  /\ r2.id = x
                  /\ doc => r2.document = last'.documents.v[1]
                  /\ emb => r2.embedding = last'.embeddings.v[1]
                  /\ meta => \A k \in DOMAIN last'.metadatas.v[1] :
                               r2.meta[k] = ToText(last'.metadatas.v[1][k])]_vars

\* C15: a get that is given ids (the empty list included, limit and offset
\* left to their defaults) returns exactly the stored ids that are in the list.
C15_GetOnlyIds ==
    (last.op = "get" /\ last.err = "" /\ last.ids.given) =>
        {last.result.ids[i] : i \in 1..Len(last.result.ids)} =
            {r.id : r \in {x \in RowsOf(db, last.category) :
                              \E j \in 1..Len(last.ids.v) : x.id = last.ids.v[j]}}

\* sub occurs in text.
Contains(text, sub) ==
    \E i \in 1..(Len(text) - Len(sub) + 1) :
        SubSeq(text, i, i + Len(sub) - 1) = sub

\* The row satisfies every predicate the delete call supplies.
Selected(r, call) ==
    /\ call.ids.given => \E i \in 1..Len(call.ids.v) : r.id = call.ids.v[i]
    /\ (call.where_document.given
          /\ "$contains" \in DOMAIN call.where_document.v) =>
            Contains(r.document, call.where_document.v["$contains"])
    /\ call.where.given =>
            \A k \in DOMAIN call.where.v : FromSql(r.meta[k]) = call.where.v[k]

\* C16: a successful delete removes exactly the rows that satisfy all the
\* predicates supplied (id in ids, document contains the substring, every
\* metadata key equal) and leaves every other row unchanged.
C16_DeleteConjunction ==
    [][(last.op = "idle" /\ last'.op = "delete" /\ last'.err = "") =>
        RowsOf(db', last'.category) =
            {r \in RowsOf(db, last'.category) : ~Selected(r, last')}]_vars

\* C17: with one writer, an add of one record (its document not None) is
\* given the row count of the category as its id; no stored row has that
\* id, so the add succeeds.
C17_SingleWriterIds ==
    [][(last.op = "idle" /\ last'.op = "add" /\ Len(last'.ids) = 1
          /\ last'.documents[1] # NoneDoc) =>
        LET n == Cardinality(RowsOf(db, last'.category))
        IN /\ \A r \in RowsOf(db, last'.category) : r.id # n
           /\ last'.err = ""
           /\ last'.inserted = <<n>>]_vars

\* The step writes metadata key K of the row stored under id: an update of
\* that id whose metadata has K.
WritesCell(call, category, id, K) ==
    /\ call.op = "update" /\ call.category = category /\ call.err = ""
    /\ call.ids[1] = id
    /\ K \in DOMAIN call.metadatas.v[1]

\* C18: no call other than delete_collection removes a table or a column,
\* and every cell stays text or NULL; when a call adds a column, every row
\* stored before the call has NULL in it afterwards (but the row to which
\* that same call writes the key), as it has the moment the column is added.
C18_SchemaMonotonic ==
    [][(last.op = "idle" /\ last'.op # "delete_collection") =>
        \A c \in Categories :
            LET t == _table_name(c)
            IN db[t].exists =>
                /\ db'[t].exists
                /\ db[t].cols \subseteq db'[t].cols
                /\ \A r2 \in db'[t].rows :
                      /\ DOMAIN r2.meta = db'[t].cols
                      /\ \A k \in DOMAIN r2.meta : r2.meta[k][1] \in {"text", "null"}
                /\ \A K \in db'[t].cols \ db[t].cols :
                      \A r \in db[t].rows : \A r2 \in db'[t].rows :
                          (r2.id = r.id /\ ~WritesCell(last', c, r.id, K)) =>
                              r2.meta[K] = SqlNull
                /\ \A K \in Keys \ db[t].cols :
                      LET d1 == add_column(db, c, K)
                      IN /\ d1[t].cols = db[t].cols \cup {K}
                         /\ \A r2 \in d1[t].rows : r2.meta[K] = SqlNull
                         /\ \A r \in db[t].rows : Kept(r, d1, c)]_vars

\* C18 witness: an update introduced column k2 on a table that already had
\* column k1 and a second row; k1 is still a column and the second row is
\* NULL in k2.
C18_Witness ==
    /\ last.op = "update" /\ last.err = "" /\ last.added = {"k2"}
    /\ "k1" \in ColsOf(db, last.category)
    /\ \E r \in RowsOf(db, last.category) :
          r.id = last.ids[1] /\ r.meta["k2"] # SqlNull
    /\ \E r \in RowsOf(db, last.category) :
          r.id # last.ids[1] /\ r.meta["k2"] = SqlNull

CollectionOps ==
    {"count", "add", "get", "peek", "query", "update", "upsert", "delete"}

\* C19: no collection call runs a statement against a table that does not
\* exist: none ends in an undefined-table error, a call that succeeds leaves
\* the table of its category existing, and get and peek do not fail.
C19_TableEnsured ==
    last.op \in CollectionOps =>
        /\ last.err # "UndefinedTable"
        /\ last.err = "" => db[_table_name(last.category)].exists
        /\ last.op \in {"get", "peek"} => last.err = ""

\* C20: an add over n tuples whose i-th insert fails reports the error, has
\* stored the first i-1 tuples in input order under consecutive ids and none
\* of the later ones, keeps every row stored before, and keeps the columns of
\* the tuples up to the i-th; an add that does not fail stores all n.
C20_BatchRowByRow ==
    [][(last.op = "idle" /\ last'.op = "add") =>
        LET c == last'.category
            n == Len(last'.ids)
            done == Len(last'.inserted)
            reached == Min(done + 1, n)
            before == Cardinality(RowsOf(db, c))
        IN /\ (last'.err = "") <=> (done = n)
           /\ Cardinality(RowsOf(db', c)) = before + done
           /\ \A r \in RowsOf(db, c) : Kept(r, db', c)
           /\ \A j \in 1..done :
                /\ last'.inserted[j] = before + j - 1
                /\ \E r \in RowsOf(db', c) :
                      /\ r.id = last'.inserted[j]
                      /\ r.document = last'.documents[j]
                      /\ \A k \in DOMAIN last'.metadatas[j] :
                            r.meta[k] = ToText(last'.metadatas[j][k])
           /\ ColsOf(db', c) =
                 ColsOf(db, c) \cup
                    UNION {DOMAIN last'.metadatas[j] : j \in 1..reached}]_vars

\* C20 witness: the second of two tuples failed; the first is stored and the
\* columns of both tuples exist.
C20_Witness ==
    /\ last.op = "add" /\ last.err # "" /\ Len(last.ids) = 2
    /\ Len(last.inserted) = 1
    /\ \E r \in RowsOf(db, last.category) :
          r.id = last.inserted[1] /\ r.document = last.documents[1]
    /\ ColsOf(db, last.category) = {"k1", "k2"}

====
